---- MODULE Spec2Model ----
(***************************************************************************)
(* Model of app.py (calc-research-agent): the response validator, the math *)
(* extractor/evaluator, the retry executor, the search pipeline, the       *)
(* router and the session history kept by the UI script.                   *)
(*                                                                         *)
(* A text is a sequence of one-character strings; texts built by f-strings *)
(* are sequences of pieces.  A value that may have any Python type is a    *)
(* tagged record [t, s, l] (see "Python values" below).  A call that may   *)
(* raise yields a record [raised, err, val].  The external calls (the      *)
(* numeric evaluator, tavily.search, llm.invoke) are inputs: what each     *)
(* call returns or raises is chosen by the environment.                    *)
(***************************************************************************)
EXTENDS Integers, Sequences, FiniteSets, TLC

\* ------------------------------------------------------------------ bounds
MaxRuns == 2
MaxQueryLen == 3
MaxItems == 4
MaxTries == 3
MaxSources == 2

\* --------------------------------------------------------------- characters
\* A character is a string.  The printable ASCII characters (U+0020..U+007E,
\* the grave accent U+0060 excepted) and "\t", "\n", "\r" are written as
\* themselves; every other character is named by its code point in upper-case
\* hexadecimal, with four digits or more: "U+000B", "U+00A0", "U+0660",
\* "U+1D7CE".
Hex == <<"0", "1", "2", "3", "4", "5", "6", "7", "8", "9", "A", "B", "C", "D", "E", "F">>
HexPair(k) == Hex[(k \div 16) + 1] \o Hex[(k % 16) + 1]

\* The name of the character with code point k, for k outside printable ASCII.
CodePoint(k) ==
    IF k < 65536 THEN ("U+" \o HexPair(k \div 256)) \o HexPair(k % 256)
    ELSE IF k < 1048576
    THEN ("U+" \o (Hex[(k \div 65536) + 1] \o HexPair((k \div 256) % 256))) \o HexPair(k % 256)
    ELSE ("U+" \o (HexPair(k \div 65536) \o HexPair((k \div 256) % 256))) \o HexPair(k % 256)

\* The characters of a set of code point ranges <<first, last>>.
CodePoints(ranges) == {CodePoint(k) : k \in UNION {r[1]..r[2] : r \in ranges}}

\* ------------------------------------------------------- character classes
\* The patterns are str patterns compiled without re.ASCII: \d, \s, \w and
\* re.I follow the Unicode database of the interpreter (Unicode 14.0.0).

\* [0-9]
AsciiDigits == {"0", "1", "2", "3", "4", "5", "6", "7", "8", "9"}

\* The decimal digits of the other scripts.
DigitRanges ==
    {<<\h0660, \h0669>>, <<\h06F0, \h06F9>>, <<\h07C0, \h07C9>>, <<\h0966, \h096F>>,
     <<\h09E6, \h09EF>>, <<\h0A66, \h0A6F>>, <<\h0AE6, \h0AEF>>, <<\h0B66, \h0B6F>>,
     <<\h0BE6, \h0BEF>>, <<\h0C66, \h0C6F>>, <<\h0CE6, \h0CEF>>, <<\h0D66, \h0D6F>>,
     <<\h0DE6, \h0DEF>>, <<\h0E50, \h0E59>>, <<\h0ED0, \h0ED9>>, <<\h0F20, \h0F29>>,
     <<\h1040, \h1049>>, <<\h1090, \h1099>>, <<\h17E0, \h17E9>>, <<\h1810, \h1819>>,
     <<\h1946, \h194F>>, <<\h19D0, \h19D9>>, <<\h1A80, \h1A89>>, <<\h1A90, \h1A99>>,
     <<\h1B50, \h1B59>>, <<\h1BB0, \h1BB9>>, <<\h1C40, \h1C49>>, <<\h1C50, \h1C59>>,
     <<\hA620, \hA629>>, <<\hA8D0, \hA8D9>>, <<\hA900, \hA909>>, <<\hA9D0, \hA9D9>>,
     <<\hA9F0, \hA9F9>>, <<\hAA50, \hAA59>>, <<\hABF0, \hABF9>>, <<\hFF10, \hFF19>>,
     <<\h104A0, \h104A9>>, <<\h10D30, \h10D39>>, <<\h11066, \h1106F>>, <<\h110F0, \h110F9>>,
     <<\h11136, \h1113F>>, <<\h111D0, \h111D9>>, <<\h112F0, \h112F9>>, <<\h11450, \h11459>>,
     <<\h114D0, \h114D9>>, <<\h11650, \h11659>>, <<\h116C0, \h116C9>>, <<\h11730, \h11739>>,
     <<\h118E0, \h118E9>>, <<\h11950, \h11959>>, <<\h11C50, \h11C59>>, <<\h11D50, \h11D59>>,
     <<\h11DA0, \h11DA9>>, <<\h16A60, \h16A69>>, <<\h16AC0, \h16AC9>>, <<\h16B50, \h16B59>>,
     <<\h1D7CE, \h1D7FF>>, <<\h1E140, \h1E149>>, <<\h1E2F0, \h1E2F9>>, <<\h1E950, \h1E959>>,
     <<\h1FBF0, \h1FBF9>>}

\* \d: the decimal digits of every script.
Digits == AsciiDigits \cup CodePoints(DigitRanges)

\* \s, and the characters str.strip() removes: \t \n \x0b \x0c \r, \x1c..\x1f,
\* the blank, \x85, \xa0 and the Unicode space separators.
Whitespace ==
    {" ", "\t", "\n", "\r"}
        \cup CodePoints({<<\h000B, \h000C>>, <<\h001C, \h001F>>, <<\h0085, \h0085>>,
                         <<\h00A0, \h00A0>>, <<\h1680, \h1680>>, <<\h2000, \h200A>>,
                         <<\h2028, \h2029>>, <<\h202F, \h202F>>, <<\h205F, \h205F>>,
                         <<\h3000, \h3000>>})

UpperCase == <<"A", "B", "C", "D", "E", "F", "G", "H", "I", "J", "K", "L", "M",
               "N", "O", "P", "Q", "R", "S", "T", "U", "V", "W", "X", "Y", "Z">>
LowerCase == <<"a", "b", "c", "d", "e", "f", "g", "h", "i", "j", "k", "l", "m",
               "n", "o", "p", "q", "r", "s", "t", "u", "v", "w", "x", "y", "z">>

\* The letters and numbers outside ASCII (the characters c with c.isalnum()).
WordRanges ==
    {<<\h00AA, \h00AA>>, <<\h00B2, \h00B3>>, <<\h00B5, \h00B5>>, <<\h00B9, \h00BA>>,
     <<\h00BC, \h00BE>>, <<\h00C0, \h00D6>>, <<\h00D8, \h00F6>>, <<\h00F8, \h02C1>>,
     <<\h02C6, \h02D1>>, <<\h02E0, \h02E4>>, <<\h02EC, \h02EC>>, <<\h02EE, \h02EE>>,
     <<\h0370, \h0374>>, <<\h0376, \h0377>>, <<\h037A, \h037D>>, <<\h037F, \h037F>>,
     <<\h0386, \h0386>>, <<\h0388, \h038A>>, <<\h038C, \h038C>>, <<\h038E, \h03A1>>,
     <<\h03A3, \h03F5>>, <<\h03F7, \h0481>>, <<\h048A, \h052F>>, <<\h0531, \h0556>>,
     <<\h0559, \h0559>>, <<\h0560, \h0588>>, <<\h05D0, \h05EA>>, <<\h05EF, \h05F2>>,
     <<\h0620, \h064A>>, <<\h0660, \h0669>>, <<\h066E, \h066F>>, <<\h0671, \h06D3>>,
     <<\h06D5, \h06D5>>, <<\h06E5, \h06E6>>, <<\h06EE, \h06FC>>, <<\h06FF, \h06FF>>,
     <<\h0710, \h0710>>, <<\h0712, \h072F>>, <<\h074D, \h07A5>>, <<\h07B1, \h07B1>>,
     <<\h07C0, \h07EA>>, <<\h07F4, \h07F5>>, <<\h07FA, \h07FA>>, <<\h0800, \h0815>>,
     <<\h081A, \h081A>>, <<\h0824, \h0824>>, <<\h0828, \h0828>>, <<\h0840, \h0858>>,
     <<\h0860, \h086A>>, <<\h0870, \h0887>>, <<\h0889, \h088E>>, <<\h08A0, \h08C9>>,
     <<\h0904, \h0939>>, <<\h093D, \h093D>>, <<\h0950, \h0950>>, <<\h0958, \h0961>>,
     <<\h0966, \h096F>>, <<\h0971, \h0980>>, <<\h0985, \h098C>>, <<\h098F, \h0990>>,
     <<\h0993, \h09A8>>, <<\h09AA, \h09B0>>, <<\h09B2, \h09B2>>, <<\h09B6, \h09B9>>,
     <<\h09BD, \h09BD>>, <<\h09CE, \h09CE>>, <<\h09DC, \h09DD>>, <<\h09DF, \h09E1>>,
     <<\h09E6, \h09F1>>, <<\h09F4, \h09F9>>, <<\h09FC, \h09FC>>, <<\h0A05, \h0A0A>>,
     <<\h0A0F, \h0A10>>, <<\h0A13, \h0A28>>, <<\h0A2A, \h0A30>>, <<\h0A32, \h0A33>>,
     <<\h0A35, \h0A36>>, <<\h0A38, \h0A39>>, <<\h0A59, \h0A5C>>, <<\h0A5E, \h0A5E>>,
     <<\h0A66, \h0A6F>>, <<\h0A72, \h0A74>>, <<\h0A85, \h0A8D>>, <<\h0A8F, \h0A91>>,
     <<\h0A93, \h0AA8>>, <<\h0AAA, \h0AB0>>, <<\h0AB2, \h0AB3>>, <<\h0AB5, \h0AB9>>,
     <<\h0ABD, \h0ABD>>, <<\h0AD0, \h0AD0>>, <<\h0AE0, \h0AE1>>, <<\h0AE6, \h0AEF>>,
     <<\h0AF9, \h0AF9>>, <<\h0B05, \h0B0C>>, <<\h0B0F, \h0B10>>, <<\h0B13, \h0B28>>,
     <<\h0B2A, \h0B30>>, <<\h0B32, \h0B33>>, <<\h0B35, \h0B39>>, <<\h0B3D, \h0B3D>>,
     <<\h0B5C, \h0B5D>>, <<\h0B5F, \h0B61>>, <<\h0B66, \h0B6F>>, <<\h0B71, \h0B77>>,
     <<\h0B83, \h0B83>>, <<\h0B85, \h0B8A>>, <<\h0B8E, \h0B90>>, <<\h0B92, \h0B95>>,
     <<\h0B99, \h0B9A>>, <<\h0B9C, \h0B9C>>, <<\h0B9E, \h0B9F>>, <<\h0BA3, \h0BA4>>,
     <<\h0BA8, \h0BAA>>, <<\h0BAE, \h0BB9>>, <<\h0BD0, \h0BD0>>, <<\h0BE6, \h0BF2>>,
     <<\h0C05, \h0C0C>>, <<\h0C0E, \h0C10>>, <<\h0C12, \h0C28>>, <<\h0C2A, \h0C39>>,
     <<\h0C3D, \h0C3D>>, <<\h0C58, \h0C5A>>, <<\h0C5D, \h0C5D>>, <<\h0C60, \h0C61>>,
     <<\h0C66, \h0C6F>>, <<\h0C78, \h0C7E>>, <<\h0C80, \h0C80>>, <<\h0C85, \h0C8C>>,
     <<\h0C8E, \h0C90>>, <<\h0C92, \h0CA8>>, <<\h0CAA, \h0CB3>>, <<\h0CB5, \h0CB9>>,
     <<\h0CBD, \h0CBD>>, <<\h0CDD, \h0CDE>>, <<\h0CE0, \h0CE1>>, <<\h0CE6, \h0CEF>>,
     <<\h0CF1, \h0CF2>>, <<\h0D04, \h0D0C>>, <<\h0D0E, \h0D10>>, <<\h0D12, \h0D3A>>,
     <<\h0D3D, \h0D3D>>, <<\h0D4E, \h0D4E>>, <<\h0D54, \h0D56>>, <<\h0D58, \h0D61>>,
     <<\h0D66, \h0D78>>, <<\h0D7A, \h0D7F>>, <<\h0D85, \h0D96>>, <<\h0D9A, \h0DB1>>,
     <<\h0DB3, \h0DBB>>, <<\h0DBD, \h0DBD>>, <<\h0DC0, \h0DC6>>, <<\h0DE6, \h0DEF>>,
     <<\h0E01, \h0E30>>, <<\h0E32, \h0E33>>, <<\h0E40, \h0E46>>, <<\h0E50, \h0E59>>,
     <<\h0E81, \h0E82>>, <<\h0E84, \h0E84>>, <<\h0E86, \h0E8A>>, <<\h0E8C, \h0EA3>>,
     <<\h0EA5, \h0EA5>>, <<\h0EA7, \h0EB0>>, <<\h0EB2, \h0EB3>>, <<\h0EBD, \h0EBD>>,
     <<\h0EC0, \h0EC4>>, <<\h0EC6, \h0EC6>>, <<\h0ED0, \h0ED9>>, <<\h0EDC, \h0EDF>>,
     <<\h0F00, \h0F00>>, <<\h0F20, \h0F33>>, <<\h0F40, \h0F47>>, <<\h0F49, \h0F6C>>,
     <<\h0F88, \h0F8C>>, <<\h1000, \h102A>>, <<\h103F, \h1049>>, <<\h1050, \h1055>>,
     <<\h105A, \h105D>>, <<\h1061, \h1061>>, <<\h1065, \h1066>>, <<\h106E, \h1070>>,
     <<\h1075, \h1081>>, <<\h108E, \h108E>>, <<\h1090, \h1099>>, <<\h10A0, \h10C5>>,
     <<\h10C7, \h10C7>>, <<\h10CD, \h10CD>>, <<\h10D0, \h10FA>>, <<\h10FC, \h1248>>,
     <<\h124A, \h124D>>, <<\h1250, \h1256>>, <<\h1258, \h1258>>, <<\h125A, \h125D>>,
     <<\h1260, \h1288>>, <<\h128A, \h128D>>, <<\h1290, \h12B0>>, <<\h12B2, \h12B5>>,
     <<\h12B8, \h12BE>>, <<\h12C0, \h12C0>>, <<\h12C2, \h12C5>>, <<\h12C8, \h12D6>>,
     <<\h12D8, \h1310>>, <<\h1312, \h1315>>, <<\h1318, \h135A>>, <<\h1369, \h137C>>,
     <<\h1380, \h138F>>, <<\h13A0, \h13F5>>, <<\h13F8, \h13FD>>, <<\h1401, \h166C>>,
     <<\h166F, \h167F>>, <<\h1681, \h169A>>, <<\h16A0, \h16EA>>, <<\h16EE, \h16F8>>,
     <<\h1700, \h1711>>, <<\h171F, \h1731>>, <<\h1740, \h1751>>, <<\h1760, \h176C>>,
     <<\h176E, \h1770>>, <<\h1780, \h17B3>>, <<\h17D7, \h17D7>>, <<\h17DC, \h17DC>>,
     <<\h17E0, \h17E9>>, <<\h17F0, \h17F9>>, <<\h1810, \h1819>>, <<\h1820, \h1878>>,
     <<\h1880, \h1884>>, <<\h1887, \h18A8>>, <<\h18AA, \h18AA>>, <<\h18B0, \h18F5>>,
     <<\h1900, \h191E>>, <<\h1946, \h196D>>, <<\h1970, \h1974>>, <<\h1980, \h19AB>>,
     <<\h19B0, \h19C9>>, <<\h19D0, \h19DA>>, <<\h1A00, \h1A16>>, <<\h1A20, \h1A54>>,
     <<\h1A80, \h1A89>>, <<\h1A90, \h1A99>>, <<\h1AA7, \h1AA7>>, <<\h1B05, \h1B33>>,
     <<\h1B45, \h1B4C>>, <<\h1B50, \h1B59>>, <<\h1B83, \h1BA0>>, <<\h1BAE, \h1BE5>>,
     <<\h1C00, \h1C23>>, <<\h1C40, \h1C49>>, <<\h1C4D, \h1C7D>>, <<\h1C80, \h1C88>>,
     <<\h1C90, \h1CBA>>, <<\h1CBD, \h1CBF>>, <<\h1CE9, \h1CEC>>, <<\h1CEE, \h1CF3>>,
     <<\h1CF5, \h1CF6>>, <<\h1CFA, \h1CFA>>, <<\h1D00, \h1DBF>>, <<\h1E00, \h1F15>>,
     <<\h1F18, \h1F1D>>, <<\h1F20, \h1F45>>, <<\h1F48, \h1F4D>>, <<\h1F50, \h1F57>>,
     <<\h1F59, \h1F59>>, <<\h1F5B, \h1F5B>>, <<\h1F5D, \h1F5D>>, <<\h1F5F, \h1F7D>>,
     <<\h1F80, \h1FB4>>, <<\h1FB6, \h1FBC>>, <<\h1FBE, \h1FBE>>, <<\h1FC2, \h1FC4>>,
     <<\h1FC6, \h1FCC>>, <<\h1FD0, \h1FD3>>, <<\h1FD6, \h1FDB>>, <<\h1FE0, \h1FEC>>,
     <<\h1FF2, \h1FF4>>, <<\h1FF6, \h1FFC>>, <<\h2070, \h2071>>, <<\h2074, \h2079>>,
     <<\h207F, \h2089>>, <<\h2090, \h209C>>, <<\h2102, \h2102>>, <<\h2107, \h2107>>,
     <<\h210A, \h2113>>, <<\h2115, \h2115>>, <<\h2119, \h211D>>, <<\h2124, \h2124>>,
     <<\h2126, \h2126>>, <<\h2128, \h2128>>, <<\h212A, \h212D>>, <<\h212F, \h2139>>,
     <<\h213C, \h213F>>, <<\h2145, \h2149>>, <<\h214E, \h214E>>, <<\h2150, \h2189>>,
     <<\h2460, \h249B>>, <<\h24EA, \h24FF>>, <<\h2776, \h2793>>, <<\h2C00, \h2CE4>>,
     <<\h2CEB, \h2CEE>>, <<\h2CF2, \h2CF3>>, <<\h2CFD, \h2CFD>>, <<\h2D00, \h2D25>>,
     <<\h2D27, \h2D27>>, <<\h2D2D, \h2D2D>>, <<\h2D30, \h2D67>>, <<\h2D6F, \h2D6F>>,
     <<\h2D80, \h2D96>>, <<\h2DA0, \h2DA6>>, <<\h2DA8, \h2DAE>>, <<\h2DB0, \h2DB6>>,
     <<\h2DB8, \h2DBE>>, <<\h2DC0, \h2DC6>>, <<\h2DC8, \h2DCE>>, <<\h2DD0, \h2DD6>>,
     <<\h2DD8, \h2DDE>>, <<\h2E2F, \h2E2F>>, <<\h3005, \h3007>>, <<\h3021, \h3029>>,
     <<\h3031, \h3035>>, <<\h3038, \h303C>>, <<\h3041, \h3096>>, <<\h309D, \h309F>>,
     <<\h30A1, \h30FA>>, <<\h30FC, \h30FF>>, <<\h3105, \h312F>>, <<\h3131, \h318E>>,
     <<\h3192, \h3195>>, <<\h31A0, \h31BF>>, <<\h31F0, \h31FF>>, <<\h3220, \h3229>>,
     <<\h3248, \h324F>>, <<\h3251, \h325F>>, <<\h3280, \h3289>>, <<\h32B1, \h32BF>>,
     <<\h3400, \h4DBF>>, <<\h4E00, \hA48C>>, <<\hA4D0, \hA4FD>>, <<\hA500, \hA60C>>,
     <<\hA610, \hA62B>>, <<\hA640, \hA66E>>, <<\hA67F, \hA69D>>, <<\hA6A0, \hA6EF>>,
     <<\hA717, \hA71F>>, <<\hA722, \hA788>>, <<\hA78B, \hA7CA>>, <<\hA7D0, \hA7D1>>,
     <<\hA7D3, \hA7D3>>, <<\hA7D5, \hA7D9>>, <<\hA7F2, \hA801>>, <<\hA803, \hA805>>,
     <<\hA807, \hA80A>>, <<\hA80C, \hA822>>, <<\hA830, \hA835>>, <<\hA840, \hA873>>,
     <<\hA882, \hA8B3>>, <<\hA8D0, \hA8D9>>, <<\hA8F2, \hA8F7>>, <<\hA8FB, \hA8FB>>,
     <<\hA8FD, \hA8FE>>, <<\hA900, \hA925>>, <<\hA930, \hA946>>, <<\hA960, \hA97C>>,
     <<\hA984, \hA9B2>>, <<\hA9CF, \hA9D9>>, <<\hA9E0, \hA9E4>>, <<\hA9E6, \hA9FE>>,
     <<\hAA00, \hAA28>>, <<\hAA40, \hAA42>>, <<\hAA44, \hAA4B>>, <<\hAA50, \hAA59>>,
     <<\hAA60, \hAA76>>, <<\hAA7A, \hAA7A>>, <<\hAA7E, \hAAAF>>, <<\hAAB1, \hAAB1>>,
     <<\hAAB5, \hAAB6>>, <<\hAAB9, \hAABD>>, <<\hAAC0, \hAAC0>>, <<\hAAC2, \hAAC2>>,
     <<\hAADB, \hAADD>>, <<\hAAE0, \hAAEA>>, <<\hAAF2, \hAAF4>>, <<\hAB01, \hAB06>>,
     <<\hAB09, \hAB0E>>, <<\hAB11, \hAB16>>, <<\hAB20, \hAB26>>, <<\hAB28, \hAB2E>>,
     <<\hAB30, \hAB5A>>, <<\hAB5C, \hAB69>>, <<\hAB70, \hABE2>>, <<\hABF0, \hABF9>>,
     <<\hAC00, \hD7A3>>, <<\hD7B0, \hD7C6>>, <<\hD7CB, \hD7FB>>, <<\hF900, \hFA6D>>,
     <<\hFA70, \hFAD9>>, <<\hFB00, \hFB06>>, <<\hFB13, \hFB17>>, <<\hFB1D, \hFB1D>>,
     <<\hFB1F, \hFB28>>, <<\hFB2A, \hFB36>>, <<\hFB38, \hFB3C>>, <<\hFB3E, \hFB3E>>,
     <<\hFB40, \hFB41>>, <<\hFB43, \hFB44>>, <<\hFB46, \hFBB1>>, <<\hFBD3, \hFD3D>>,
     <<\hFD50, \hFD8F>>, <<\hFD92, \hFDC7>>, <<\hFDF0, \hFDFB>>, <<\hFE70, \hFE74>>,
     <<\hFE76, \hFEFC>>, <<\hFF10, \hFF19>>, <<\hFF21, \hFF3A>>, <<\hFF41, \hFF5A>>,
     <<\hFF66, \hFFBE>>, <<\hFFC2, \hFFC7>>, <<\hFFCA, \hFFCF>>, <<\hFFD2, \hFFD7>>,
     <<\hFFDA, \hFFDC>>, <<\h10000, \h1000B>>, <<\h1000D, \h10026>>, <<\h10028, \h1003A>>,
     <<\h1003C, \h1003D>>, <<\h1003F, \h1004D>>, <<\h10050, \h1005D>>, <<\h10080, \h100FA>>,
     <<\h10107, \h10133>>, <<\h10140, \h10178>>, <<\h1018A, \h1018B>>, <<\h10280, \h1029C>>,
     <<\h102A0, \h102D0>>, <<\h102E1, \h102FB>>, <<\h10300, \h10323>>, <<\h1032D, \h1034A>>,
     <<\h10350, \h10375>>, <<\h10380, \h1039D>>, <<\h103A0, \h103C3>>, <<\h103C8, \h103CF>>,
     <<\h103D1, \h103D5>>, <<\h10400, \h1049D>>, <<\h104A0, \h104A9>>, <<\h104B0, \h104D3>>,
     <<\h104D8, \h104FB>>, <<\h10500, \h10527>>, <<\h10530, \h10563>>, <<\h10570, \h1057A>>,
     <<\h1057C, \h1058A>>, <<\h1058C, \h10592>>, <<\h10594, \h10595>>, <<\h10597, \h105A1>>,
     <<\h105A3, \h105B1>>, <<\h105B3, \h105B9>>, <<\h105BB, \h105BC>>, <<\h10600, \h10736>>,
     <<\h10740, \h10755>>, <<\h10760, \h10767>>, <<\h10780, \h10785>>, <<\h10787, \h107B0>>,
     <<\h107B2, \h107BA>>, <<\h10800, \h10805>>, <<\h10808, \h10808>>, <<\h1080A, \h10835>>,
     <<\h10837, \h10838>>, <<\h1083C, \h1083C>>, <<\h1083F, \h10855>>, <<\h10858, \h10876>>,
     <<\h10879, \h1089E>>, <<\h108A7, \h108AF>>, <<\h108E0, \h108F2>>, <<\h108F4, \h108F5>>,
     <<\h108FB, \h1091B>>, <<\h10920, \h10939>>, <<\h10980, \h109B7>>, <<\h109BC, \h109CF>>,
     <<\h109D2, \h10A00>>, <<\h10A10, \h10A13>>, <<\h10A15, \h10A17>>, <<\h10A19, \h10A35>>,
     <<\h10A40, \h10A48>>, <<\h10A60, \h10A7E>>, <<\h10A80, \h10A9F>>, <<\h10AC0, \h10AC7>>,
     <<\h10AC9, \h10AE4>>, <<\h10AEB, \h10AEF>>, <<\h10B00, \h10B35>>, <<\h10B40, \h10B55>>,
     <<\h10B58, \h10B72>>, <<\h10B78, \h10B91>>, <<\h10BA9, \h10BAF>>, <<\h10C00, \h10C48>>,
     <<\h10C80, \h10CB2>>, <<\h10CC0, \h10CF2>>, <<\h10CFA, \h10D23>>, <<\h10D30, \h10D39>>,
     <<\h10E60, \h10E7E>>, <<\h10E80, \h10EA9>>, <<\h10EB0, \h10EB1>>, <<\h10F00, \h10F27>>,
     <<\h10F30, \h10F45>>, <<\h10F51, \h10F54>>, <<\h10F70, \h10F81>>, <<\h10FB0, \h10FCB>>,
     <<\h10FE0, \h10FF6>>, <<\h11003, \h11037>>, <<\h11052, \h1106F>>, <<\h11071, \h11072>>,
     <<\h11075, \h11075>>, <<\h11083, \h110AF>>, <<\h110D0, \h110E8>>, <<\h110F0, \h110F9>>,
     <<\h11103, \h11126>>, <<\h11136, \h1113F>>, <<\h11144, \h11144>>, <<\h11147, \h11147>>,
     <<\h11150, \h11172>>, <<\h11176, \h11176>>, <<\h11183, \h111B2>>, <<\h111C1, \h111C4>>,
     <<\h111D0, \h111DA>>, <<\h111DC, \h111DC>>, <<\h111E1, \h111F4>>, <<\h11200, \h11211>>,
     <<\h11213, \h1122B>>, <<\h11280, \h11286>>, <<\h11288, \h11288>>, <<\h1128A, \h1128D>>,
     <<\h1128F, \h1129D>>, <<\h1129F, \h112A8>>, <<\h112B0, \h112DE>>, <<\h112F0, \h112F9>>,
     <<\h11305, \h1130C>>, <<\h1130F, \h11310>>, <<\h11313, \h11328>>, <<\h1132A, \h11330>>,
     <<\h11332, \h11333>>, <<\h11335, \h11339>>, <<\h1133D, \h1133D>>, <<\h11350, \h11350>>,
     <<\h1135D, \h11361>>, <<\h11400, \h11434>>, <<\h11447, \h1144A>>, <<\h11450, \h11459>>,
     <<\h1145F, \h11461>>, <<\h11480, \h114AF>>, <<\h114C4, \h114C5>>, <<\h114C7, \h114C7>>,
     <<\h114D0, \h114D9>>, <<\h11580, \h115AE>>, <<\h115D8, \h115DB>>, <<\h11600, \h1162F>>,
     <<\h11644, \h11644>>, <<\h11650, \h11659>>, <<\h11680, \h116AA>>, <<\h116B8, \h116B8>>,
     <<\h116C0, \h116C9>>, <<\h11700, \h1171A>>, <<\h11730, \h1173B>>, <<\h11740, \h11746>>,
     <<\h11800, \h1182B>>, <<\h118A0, \h118F2>>, <<\h118FF, \h11906>>, <<\h11909, \h11909>>,
     <<\h1190C, \h11913>>, <<\h11915, \h11916>>, <<\h11918, \h1192F>>, <<\h1193F, \h1193F>>,
     <<\h11941, \h11941>>, <<\h11950, \h11959>>, <<\h119A0, \h119A7>>, <<\h119AA, \h119D0>>,
     <<\h119E1, \h119E1>>, <<\h119E3, \h119E3>>, <<\h11A00, \h11A00>>, <<\h11A0B, \h11A32>>,
     <<\h11A3A, \h11A3A>>, <<\h11A50, \h11A50>>, <<\h11A5C, \h11A89>>, <<\h11A9D, \h11A9D>>,
     <<\h11AB0, \h11AF8>>, <<\h11C00, \h11C08>>, <<\h11C0A, \h11C2E>>, <<\h11C40, \h11C40>>,
     <<\h11C50, \h11C6C>>, <<\h11C72, \h11C8F>>, <<\h11D00, \h11D06>>, <<\h11D08, \h11D09>>,
     <<\h11D0B, \h11D30>>, <<\h11D46, \h11D46>>, <<\h11D50, \h11D59>>, <<\h11D60, \h11D65>>,
     <<\h11D67, \h11D68>>, <<\h11D6A, \h11D89>>, <<\h11D98, \h11D98>>, <<\h11DA0, \h11DA9>>,
     <<\h11EE0, \h11EF2>>, <<\h11FB0, \h11FB0>>, <<\h11FC0, \h11FD4>>, <<\h12000, \h12399>>,
     <<\h12400, \h1246E>>, <<\h12480, \h12543>>, <<\h12F90, \h12FF0>>, <<\h13000, \h1342E>>,
     <<\h14400, \h14646>>, <<\h16800, \h16A38>>, <<\h16A40, \h16A5E>>, <<\h16A60, \h16A69>>,
     <<\h16A70, \h16ABE>>, <<\h16AC0, \h16AC9>>, <<\h16AD0, \h16AED>>, <<\h16B00, \h16B2F>>,
     <<\h16B40, \h16B43>>, <<\h16B50, \h16B59>>, <<\h16B5B, \h16B61>>, <<\h16B63, \h16B77>>,
     <<\h16B7D, \h16B8F>>, <<\h16E40, \h16E96>>, <<\h16F00, \h16F4A>>, <<\h16F50, \h16F50>>,
     <<\h16F93, \h16F9F>>, <<\h16FE0, \h16FE1>>, <<\h16FE3, \h16FE3>>, <<\h17000, \h187F7>>,
     <<\h18800, \h18CD5>>, <<\h18D00, \h18D08>>, <<\h1AFF0, \h1AFF3>>, <<\h1AFF5, \h1AFFB>>,
     <<\h1AFFD, \h1AFFE>>, <<\h1B000, \h1B122>>, <<\h1B150, \h1B152>>, <<\h1B164, \h1B167>>,
     <<\h1B170, \h1B2FB>>, <<\h1BC00, \h1BC6A>>, <<\h1BC70, \h1BC7C>>, <<\h1BC80, \h1BC88>>,
     <<\h1BC90, \h1BC99>>, <<\h1D2E0, \h1D2F3>>, <<\h1D360, \h1D378>>, <<\h1D400, \h1D454>>,
     <<\h1D456, \h1D49C>>, <<\h1D49E, \h1D49F>>, <<\h1D4A2, \h1D4A2>>, <<\h1D4A5, \h1D4A6>>,
     <<\h1D4A9, \h1D4AC>>, <<\h1D4AE, \h1D4B9>>, <<\h1D4BB, \h1D4BB>>, <<\h1D4BD, \h1D4C3>>,
     <<\h1D4C5, \h1D505>>, <<\h1D507, \h1D50A>>, <<\h1D50D, \h1D514>>, <<\h1D516, \h1D51C>>,
     <<\h1D51E, \h1D539>>, <<\h1D53B, \h1D53E>>, <<\h1D540, \h1D544>>, <<\h1D546, \h1D546>>,
     <<\h1D54A, \h1D550>>, <<\h1D552, \h1D6A5>>, <<\h1D6A8, \h1D6C0>>, <<\h1D6C2, \h1D6DA>>,
     <<\h1D6DC, \h1D6FA>>, <<\h1D6FC, \h1D714>>, <<\h1D716, \h1D734>>, <<\h1D736, \h1D74E>>,
     <<\h1D750, \h1D76E>>, <<\h1D770, \h1D788>>, <<\h1D78A, \h1D7A8>>, <<\h1D7AA, \h1D7C2>>,
     <<\h1D7C4, \h1D7CB>>, <<\h1D7CE, \h1D7FF>>, <<\h1DF00, \h1DF1E>>, <<\h1E100, \h1E12C>>,
     <<\h1E137, \h1E13D>>, <<\h1E140, \h1E149>>, <<\h1E14E, \h1E14E>>, <<\h1E290, \h1E2AD>>,
     <<\h1E2C0, \h1E2EB>>, <<\h1E2F0, \h1E2F9>>, <<\h1E7E0, \h1E7E6>>, <<\h1E7E8, \h1E7EB>>,
     <<\h1E7ED, \h1E7EE>>, <<\h1E7F0, \h1E7FE>>, <<\h1E800, \h1E8C4>>, <<\h1E8C7, \h1E8CF>>,
     <<\h1E900, \h1E943>>, <<\h1E94B, \h1E94B>>, <<\h1E950, \h1E959>>, <<\h1EC71, \h1ECAB>>,
     <<\h1ECAD, \h1ECAF>>, <<\h1ECB1, \h1ECB4>>, <<\h1ED01, \h1ED2D>>, <<\h1ED2F, \h1ED3D>>,
     <<\h1EE00, \h1EE03>>, <<\h1EE05, \h1EE1F>>, <<\h1EE21, \h1EE22>>, <<\h1EE24, \h1EE24>>,
     <<\h1EE27, \h1EE27>>, <<\h1EE29, \h1EE32>>, <<\h1EE34, \h1EE37>>, <<\h1EE39, \h1EE39>>,
     <<\h1EE3B, \h1EE3B>>, <<\h1EE42, \h1EE42>>, <<\h1EE47, \h1EE47>>, <<\h1EE49, \h1EE49>>,
     <<\h1EE4B, \h1EE4B>>, <<\h1EE4D, \h1EE4F>>, <<\h1EE51, \h1EE52>>, <<\h1EE54, \h1EE54>>,
     <<\h1EE57, \h1EE57>>, <<\h1EE59, \h1EE59>>, <<\h1EE5B, \h1EE5B>>, <<\h1EE5D, \h1EE5D>>,
     <<\h1EE5F, \h1EE5F>>, <<\h1EE61, \h1EE62>>, <<\h1EE64, \h1EE64>>, <<\h1EE67, \h1EE6A>>,
     <<\h1EE6C, \h1EE72>>, <<\h1EE74, \h1EE77>>, <<\h1EE79, \h1EE7C>>, <<\h1EE7E, \h1EE7E>>,
     <<\h1EE80, \h1EE89>>, <<\h1EE8B, \h1EE9B>>, <<\h1EEA1, \h1EEA3>>, <<\h1EEA5, \h1EEA9>>,
     <<\h1EEAB, \h1EEBB>>, <<\h1F100, \h1F10C>>, <<\h1FBF0, \h1FBF9>>, <<\h20000, \h2A6DF>>,
     <<\h2A700, \h2B738>>, <<\h2B740, \h2B81D>>, <<\h2B820, \h2CEA1>>, <<\h2CEB0, \h2EBE0>>,
     <<\h2F800, \h2FA1D>>, <<\h30000, \h3134A>>}

\* \w, which decides \b: the alphanumeric characters of every script and "_".
WordChars ==
    {UpperCase[i] : i \in 1..26} \cup {LowerCase[i] : i \in 1..26}
        \cup AsciiDigits \cup {"_"} \cup CodePoints(WordRanges)

MathOps == {"+", "-", "*", "/", "%", "(", ")"}
RouterOps == {"+", "-", "*", "/", "^", "%"}

\* [0-9\.\+\-\*\/\%\(\)\seE]
EvalChars == AsciiDigits \cup {".", "+", "-", "*", "/", "%", "(", ")", "e", "E"} \cup Whitespace

\* re.I: the letter a..z that the character c matches.  Besides A..Z, case
\* folding makes U+0130 and U+0131 match "i", U+017F match "s" and U+212A
\* match "k"; any other character matches itself only.
Lower(c) ==
    IF \E i \in 1..26 : UpperCase[i] = c
    THEN LowerCase[CHOOSE i \in 1..26 : UpperCase[i] = c]
    ELSE IF c \in {"U+0130", "U+0131"} THEN "i"
    ELSE IF c = "U+017F" THEN "s"
    ELSE IF c = "U+212A" THEN "k"
    ELSE c

\* ---------------------------------------------------------- text helpers
\* str.strip(): drop leading and trailing whitespace.
RECURSIVE LStrip(_)
LStrip(s) ==
    IF s # <<>> /\ Head(s) \in Whitespace THEN LStrip(Tail(s)) ELSE s

RECURSIVE RStrip(_)
RStrip(s) ==
    IF s # <<>> /\ s[Len(s)] \in Whitespace
    THEN RStrip(SubSeq(s, 1, Len(s) - 1))
    ELSE s

Strip(s) == RStrip(LStrip(s))

\* str.replace("^", "**")
RECURSIVE ReplaceCaret(_)
ReplaceCaret(s) ==
    IF s = <<>> THEN <<>>
    ELSE IF Head(s) = "^" THEN <<"*", "*">> \o ReplaceCaret(Tail(s))
    ELSE <<Head(s)>> \o ReplaceCaret(Tail(s))

\* the character of s at position p, or "" past the end
At(s, p) == IF p >= 1 /\ p <= Len(s) THEN s[p] ELSE ""

\* ------------------------------------------------------------ MATH_SEQ
\* \d* from position p: the position after the maximal run of digits.
RECURSIVE DigitsEnd(_, _)
DigitsEnd(s, p) ==
    IF At(s, p) \in Digits THEN DigitsEnd(s, p + 1) ELSE p

\* \s* from position p: the position after the maximal run of whitespace.
RECURSIVE SpaceEnd(_, _)
SpaceEnd(s, p) ==
    IF At(s, p) \in Whitespace THEN SpaceEnd(s, p + 1) ELSE p

\* (?:\d+\.\d*|\.\d+|\d+): position after the mantissa, p if none matches.
MantissaEnd(s, p) ==
    LET d == DigitsEnd(s, p)
    IN  IF d > p /\ At(s, d) = "." THEN DigitsEnd(s, d + 1)
        ELSE IF At(s, p) = "." /\ DigitsEnd(s, p + 1) > p + 1 THEN DigitsEnd(s, p + 1)
        ELSE d

\* (?:[eE][+\-]?\d+)? from position p: position after the optional exponent.
ExponentEnd(s, p) ==
    IF At(s, p) \in {"e", "E"}
    THEN LET q == IF At(s, p + 1) \in {"+", "-"} THEN p + 2 ELSE p + 1
             d == DigitsEnd(s, q)
         IN  IF d > q THEN d ELSE p
    ELSE p

\* one iteration of the group: number | operator/paren | whitespace.
UnitEnd(s, p) ==
    LET m == MantissaEnd(s, p)
    IN  IF m > p THEN ExponentEnd(s, m)
        ELSE IF At(s, p) \in MathOps THEN p + 1
        ELSE SpaceEnd(s, p)

\* ( ... )+ from position p: position after the last iteration, p if none.
RECURSIVE MatchEnd(_, _)
MatchEnd(s, p) ==
    LET u == UnitEnd(s, p)
    IN  IF u > p THEN MatchEnd(s, u) ELSE p

\* MATH_SEQ.finditer(s): the non-overlapping matches, left to right.
RECURSIVE FindIter(_, _)
FindIter(s, p) ==
    IF p > Len(s) THEN <<>>
    ELSE LET e == MatchEnd(s, p)
         IN  IF e > p THEN <<SubSeq(s, p, e - 1)>> \o FindIter(s, e)
             ELSE FindIter(s, p + 1)

MATH_SEQ(s) == FindIter(s, 1)

\* max(..., key=len): the first element of maximal length.
Longest(ms) ==
    ms[CHOOSE i \in 1..Len(ms) :
          /\ \A j \in 1..Len(ms) : Len(ms[j]) <= Len(ms[i])
          /\ \A j \in 1..(i - 1) : Len(ms[j]) < Len(ms[i])]

\* ------------------------------------------------------------ eval_math
\* What a call can do: return a value or raise.  err is the exception text.
Ret(v) == [raised |-> FALSE, err |-> "", val |-> v]
Raise(e) == [raised |-> TRUE, err |-> e, val |-> <<>>]

\* The outcomes of ne.evaluate followed by float(): the numeric expression
\* engine is an external library, its verdict on a string is an input.
NeOutcomes == {Ret(<<"1280.0">>), Raise("ZeroDivisionError")}

\* re.fullmatch(r"[0-9\.\+\-\*\/\%\(\)\seE]+", expr), then the evaluation
evaluate(expr, ne) ==
    IF expr = <<>> \/ \E i \in 1..Len(expr) : expr[i] \notin EvalChars
    THEN Raise("Invalid characters in expression.")
    ELSE ne

eval_math(expr, ne) == evaluate(ReplaceCaret(Strip(expr)), ne)

\* ------------------------------------------------------------- run_math
\* A handler payload as the handlers build it.
Payload(mode, answer, sources) ==
    [mode |-> mode, answer |-> answer, sources |-> sources]

\* return {"mode": "math", "answer": str(value), "sources": []}
math_payload(value) ==
    IF value.raised THEN value
    ELSE [raised |-> FALSE, err |-> "", val |-> Payload("math", value.val, <<>>)]

\* The body of run_math once the matches are listed.
evaluate_longest(matches, ne) ==
    IF matches = <<>> THEN Raise("No math expression found.")
    ELSE math_payload(eval_math(Strip(Longest(matches)), ne))

run_math(query, ne) == evaluate_longest(MATH_SEQ(ReplaceCaret(query)), ne)

\* ---------------------------------------------------------- decide_mode
\* re.search(r"[0-9]+\s*[\+\-\*\/\^\%]\s*[0-9]+", query)
HasArithmetic(s) ==
    \E i \in 1..Len(s) :
        /\ s[i] \in AsciiDigits
        /\ LET o == SpaceEnd(s, i + 1)
           IN  /\ At(s, o) \in RouterOps
               /\ At(s, SpaceEnd(s, o + 1)) \in AsciiDigits

TriggerWords == {<<"c", "a", "l", "c">>,
                 <<"c", "o", "m", "p", "u", "t", "e">>,
                 <<"w", "h", "a", "t", " ", "i", "s">>,
                 <<"h", "o", "w", " ", "m", "a", "n", "y">>}

\* \b at the gap before position p
Boundary(s, p) == (At(s, p - 1) \in WordChars) # (At(s, p) \in WordChars)

\* re.search(r"\b(calc|compute|what is|how many)\b", query, re.I)
HasTrigger(s) ==
    \E w \in TriggerWords : \E p \in 1..Len(s) :
        /\ p + Len(w) - 1 <= Len(s)
        /\ \A k \in 1..Len(w) : Lower(s[p + k - 1]) = w[k]
        /\ Boundary(s, p)
        /\ Boundary(s, p + Len(w))

decide_mode(query) ==
    IF HasArithmetic(query) \/ HasTrigger(query) THEN "math" ELSE "search"

\* ------------------------------------------------------ Python values
\* A value of unknown type: t is its type tag, s its text when it is a str,
\* l its elements when it is a list.  A list element, and a field of a search
\* result, is a record [t, s]: s is the text of a str and the digits of an int.
Str(s) == [t |-> "str", s |-> s, l |-> <<>>]
List(l) == [t |-> "list", s |-> <<>>, l |-> l]
Number == [t |-> "int", s |-> <<>>, l |-> <<>>]
None == [t |-> "none", s |-> <<>>, l |-> <<>>]
Absent == [t |-> "absent", s |-> <<>>, l |-> <<>>]
StrElem(s) == [t |-> "str", s |-> s]
NumberElem == [t |-> "int", s |-> <<"5">>]
ZeroElem == [t |-> "int", s |-> <<"0">>]
ListElem == [t |-> "list", s |-> <<"1">>]
AbsentElem == [t |-> "absent", s |-> <<>>]

\* bool(v), as "v or ''" tests it: None, a missing key, "" and 0 are falsy;
\* ListElem is the non-empty list [1].
Truthy(v) ==
    CASE v.t = "str" -> v.s # <<>>
      [] v.t = "int" -> v.s # <<"0">>
      [] v.t = "list" -> TRUE
      [] OTHER -> FALSE

\* The dict a handler returns: {"mode": mode, "answer": answer, "sources": sources}
HandlerDict(p) ==
    [mode |-> Str(<<p.mode>>), answer |-> Str(p.answer),
     sources |-> List([i \in 1..Len(p.sources) |-> StrElem(p.sources[i])])]

\* ---------------------------------------------- AgentResponse, safe_return
Modes == {"math", "search", "error"}

\* (as if the validator returned v unchanged)
valid_mode_passthrough(v) == IF Len(v) = 1 THEN v[1] ELSE "error"

\* @field_validator("mode"): v is the text of the mode
valid_mode(v) ==
    IF v \in {<<m>> : m \in Modes} THEN v[1] ELSE "error"

\* The type checks of the model's three fields: mode and answer are required
\* strs, sources is a list of strs that defaults to [].
Validates(payload) ==
    /\ payload.mode.t = "str"
    /\ payload.answer.t = "str"
    /\ \/ payload.sources.t = "absent"
       \/ /\ payload.sources.t = "list"
          /\ \A i \in 1..Len(payload.sources.l) : payload.sources.l[i].t = "str"

safe_return(payload) ==
    IF Validates(payload)
    THEN Payload(valid_mode(payload.mode.s), payload.answer.s,
                 [i \in 1..Len(payload.sources.l) |-> payload.sources.l[i].s])
    ELSE Payload("error", <<"Invalid payload: ", "ValidationError">>, <<>>)

\* ---------------------------------------------------------- with_retries
\* A delay is the fraction n/d.
Frac(n, d) == [n |-> n, d |-> d]
FracMul(a, b) == [n |-> a.n * b.n, d |-> a.d * b.d]
FracEq(a, b) == a.n * b.d = b.n * a.d
FracNeg(a) == a.n * a.d < 0

\* (as if the except clause caught every exception)
Matches_any(e, exceptions) == TRUE

\* An exception is named by its class.  Bases(e) is the set of the classes
\* that class e derives from: the built-in exceptions of Python 3.11 and those
\* of asyncio, concurrent.futures, http, io, json, queue, socket, ssl,
\* subprocess and urllib with all their submodules ("CancelledError" is
\* asyncio's).  Any other name is
\* a class that a library or the program defines directly on Exception, as
\* the provider's and the summarizer's own error classes are.
Bases(e) ==
    CASE e \in {"BaseException"} ->
           {}
      [] e \in {"BaseExceptionGroup", "CancelledError", "Exception",
                 "GeneratorExit", "KeyboardInterrupt", "SystemExit"} ->
           {"BaseException"}
      [] e \in {"FloatingPointError", "OverflowError", "ZeroDivisionError"} ->
           {"ArithmeticError", "Exception", "BaseException"}
      [] e \in {"ExceptionGroup"} ->
           {"BaseExceptionGroup", "Exception", "BaseException"}
      [] e \in {"IncompleteReadError"} ->
           {"EOFError", "Exception", "BaseException"}
      [] e \in {"BadStatusLine", "ImproperConnectionState", "IncompleteRead",
                 "InvalidURL", "LineTooLong", "NotConnected",
                 "UnimplementedFileMode", "UnknownProtocol",
                 "UnknownTransferEncoding"} ->
           {"HTTPException", "Exception", "BaseException"}
      [] e \in {"ModuleNotFoundError"} ->
           {"ImportError", "Exception", "BaseException"}
      [] e \in {"IndexError", "KeyError"} ->
           {"LookupError", "Exception", "BaseException"}
      [] e \in {"UnboundLocalError"} ->
           {"NameError", "Exception", "BaseException"}
      [] e \in {"BlockingIOError", "ChildProcessError", "ConnectionError",
                 "FileExistsError", "FileNotFoundError",
                 "InterruptedError", "IsADirectoryError", "LoadError",
                 "NotADirectoryError", "PermissionError",
                 "ProcessLookupError", "SSLError", "TimeoutError",
                 "URLError", "gaierror", "herror"} ->
           {"OSError", "Exception", "BaseException"}
      [] e \in {"BrokenBarrierError", "BrokenExecutor", "NotImplementedError",
                 "RecursionError", "SendfileNotAvailableError"} ->
           {"RuntimeError", "Exception", "BaseException"}
      [] e \in {"BrokenProcessPool", "BrokenThreadPool"} ->
           {"BrokenExecutor", "RuntimeError", "Exception", "BaseException"}
      [] e \in {"CalledProcessError", "TimeoutExpired"} ->
           {"SubprocessError", "Exception", "BaseException"}
      [] e \in {"IndentationError"} ->
           {"SyntaxError", "Exception", "BaseException"}
      [] e \in {"JSONDecodeError", "UnicodeError"} ->
           {"ValueError", "Exception", "BaseException"}
      [] e \in {"BytesWarning", "DeprecationWarning", "EncodingWarning",
                 "FutureWarning", "ImportWarning",
                 "PendingDeprecationWarning", "ResourceWarning",
                 "RuntimeWarning", "SyntaxWarning", "UnicodeWarning",
                 "UserWarning"} ->
           {"Warning", "Exception", "BaseException"}
      [] e \in {"BrokenPipeError", "ConnectionAbortedError",
                 "ConnectionRefusedError", "ConnectionResetError"} ->
           {"ConnectionError", "OSError", "Exception", "BaseException"}
      [] e \in {"CannotSendHeader", "CannotSendRequest", "ResponseNotReady"} ->
           {"ImproperConnectionState", "HTTPException", "Exception",
            "BaseException"}
      [] e \in {"TabError"} ->
           {"IndentationError", "SyntaxError", "Exception", "BaseException"}
      [] e \in {"SSLEOFError", "SSLSyscallError", "SSLWantReadError",
                 "SSLWantWriteError", "SSLZeroReturnError"} ->
           {"SSLError", "OSError", "Exception", "BaseException"}
      [] e \in {"ContentTooShortError", "HTTPError"} ->
           {"URLError", "OSError", "Exception", "BaseException"}
      [] e \in {"UnicodeDecodeError", "UnicodeEncodeError",
                 "UnicodeTranslateError"} ->
           {"UnicodeError", "ValueError", "Exception", "BaseException"}
      [] e \in {"UnsupportedOperation"} ->
           {"ValueError", "OSError", "Exception", "BaseException"}
      [] e \in {"SSLCertVerificationError"} ->
           {"SSLError", "ValueError", "OSError", "Exception", "BaseException"}
      [] e \in {"RemoteDisconnected"} ->
           {"ConnectionResetError", "BadStatusLine", "ConnectionError",
            "HTTPException", "OSError", "Exception", "BaseException"}
      [] OTHER -> {"Exception", "BaseException"}

\* isinstance(e, cls): cls is the class of e or one of its base classes.
IsInstance(e, cls) == e # "" /\ (e = cls \/ cls \in Bases(e))

\* "except exceptions as e" catches the instances of every class of the tuple.
Matches(e, exceptions) == \E cls \in exceptions : IsInstance(e, cls)

\* What a finished with_retries call did: its outcome (raised/err/val), the
\* number of invocations of fn, the delays slept, and the order of events
\* ("ok", "fail" or "fatal" for an invocation, "sleep" for a time.sleep that
\* slept, "refused" for a time.sleep that raised).
Finished(out, st) ==
    [raised |-> out.raised, err |-> out.err, val |-> out.val,
     calls |-> st.calls, sleeps |-> st.sleeps, log |-> st.log]

\* (as if the sleep were not guarded by "if i < tries - 1")
RECURSIVE retry_loop_sleep_always(_, _, _, _, _)
retry_loop_sleep_always(fn, tries, backoff, exceptions, st) ==
    IF st.i >= tries
    THEN Finished(IF st.last_err = "" THEN Raise("TypeError") ELSE Raise(st.last_err), st)
    ELSE LET out == fn[st.calls + 1]
         IN  IF ~out.raised
             THEN Finished(out, [st EXCEPT !.calls = @ + 1, !.log = Append(@, "ok")])
             ELSE IF ~Matches(out.err, exceptions)
             THEN Finished(out, [st EXCEPT !.calls = @ + 1, !.log = Append(@, "fatal")])
             ELSE IF FracNeg(st.delay)
             THEN Finished(Raise("ValueError"),
                      [st EXCEPT !.calls = @ + 1, !.log = @ \o <<"fail", "refused">>])
             ELSE retry_loop_sleep_always(fn, tries, backoff, exceptions,
                      [i |-> st.i + 1, delay |-> FracMul(st.delay, backoff),
                       last_err |-> out.err, calls |-> st.calls + 1,
                       sleeps |-> Append(st.sleeps, st.delay),
                       log |-> st.log \o <<"fail", "sleep">>])

\* The for loop, from iteration st.i on.  fn[k] is what the k-th invocation
\* of the operation does.  time.sleep(delay) raises ValueError when the delay
\* is negative; raised inside the except block, it leaves with_retries.
RECURSIVE retry_loop(_, _, _, _, _)
retry_loop(fn, tries, backoff, exceptions, st) ==
    IF st.i >= tries
    THEN Finished(IF st.last_err = "" THEN Raise("TypeError") ELSE Raise(st.last_err), st)
    ELSE LET out == fn[st.calls + 1]
         IN  IF ~out.raised
             THEN Finished(out, [st EXCEPT !.calls = @ + 1, !.log = Append(@, "ok")])
             ELSE IF ~Matches(out.err, exceptions)
             THEN Finished(out, [st EXCEPT !.calls = @ + 1, !.log = Append(@, "fatal")])
             ELSE IF st.i < tries - 1 /\ FracNeg(st.delay)
             THEN Finished(Raise("ValueError"),
                      [st EXCEPT !.calls = @ + 1, !.log = @ \o <<"fail", "refused">>])
             ELSE IF st.i < tries - 1
             THEN retry_loop(fn, tries, backoff, exceptions,
                      [i |-> st.i + 1, delay |-> FracMul(st.delay, backoff),
                       last_err |-> out.err, calls |-> st.calls + 1,
                       sleeps |-> Append(st.sleeps, st.delay),
                       log |-> st.log \o <<"fail", "sleep">>])
             ELSE retry_loop(fn, tries, backoff, exceptions,
                      [st EXCEPT !.i = @ + 1, !.last_err = out.err,
                                 !.calls = @ + 1, !.log = Append(@, "fail")])

\* (as if the loop were "for i in range(tries - 1)")
with_retries_one_less(fn, tries, delay, backoff, exceptions) ==
    retry_loop(fn, tries - 1, backoff, exceptions,
               [i |-> 0, delay |-> delay, last_err |-> "", calls |-> 0,
                sleeps |-> <<>>, log |-> <<>>])

with_retries(fn, tries, delay, backoff, exceptions) ==
    retry_loop(fn, tries, backoff, exceptions,
               [i |-> 0, delay |-> delay, last_err |-> "", calls |-> 0,
                sleeps |-> <<>>, log |-> <<>>])

\* ----------------------------------------------------------- run_search
\* One element of the provider's result list.  A well-formed one is a dict
\* whose "url", "title" and "content" may be missing, a str or something else.
DictItem(url, title, content) ==
    [dict |-> TRUE, url |-> url, title |-> title, content |-> content]
NonDictItem ==
    [dict |-> FALSE, url |-> AbsentElem, title |-> AbsentElem, content |-> AbsentElem]

\* A result with the given "url" and well-formed texts.
Result(url) == DictItem(url, StrElem(<<"t">>), AbsentElem)

\* What tavily.search returns: a dict (with or without "results"), a bare
\* list, or None.
Wrapped(items) == [kind |-> "dict", has_results |-> TRUE, items |-> items]
DictNoResults == [kind |-> "dict", has_results |-> FALSE, items |-> <<>>]
BareList(items) == [kind |-> "list", has_results |-> FALSE, items |-> items]
NoneRaw == [kind |-> "none", has_results |-> FALSE, items |-> <<>>]

SearchRet(raw) == [raised |-> FALSE, err |-> "", val |-> raw]
SearchRaise(e) == [raised |-> TRUE, err |-> e, val |-> NoneRaw]

\* items = results.get("results", []) if isinstance(results, dict) else results;
\* iterating over None raises.
Normalize(results) ==
    IF results.kind = "dict"
    THEN Ret(IF results.has_results THEN results.items ELSE <<>>)
    ELSE IF results.kind = "list" THEN Ret(results.items)
    ELSE Raise("TypeError")

\* (it.get("url") or "").strip(): a falsy url of any type gives "", a truthy
\* one that is not a str has no strip.
ItemUrl(it) ==
    IF ~it.dict THEN Raise("AttributeError")
    ELSE IF ~Truthy(it.url) THEN Ret(<<>>)
    ELSE IF it.url.t = "str" THEN Ret(Strip(it.url.s))
    ELSE Raise("AttributeError")

Range(f) == {f[i] : i \in DOMAIN f}

\* (as if the loop did not consult the seen set)
RECURSIVE dedup_loop_noseen(_, _, _)
dedup_loop_noseen(items, k, sources) ==
    IF k > Len(items) THEN Ret(sources)
    ELSE LET url == ItemUrl(items[k])
         IN  IF url.raised THEN url
             ELSE LET srcs == IF url.val # <<>> THEN Append(sources, url.val) ELSE sources
                  IN  IF Len(srcs) = 3 THEN Ret(srcs)
                      ELSE dedup_loop_noseen(items, k + 1, srcs)

\* The dedup loop from item k on, with the sources collected so far.
RECURSIVE dedup_loop(_, _, _)
dedup_loop(items, k, sources) ==
    IF k > Len(items) THEN Ret(sources)
    ELSE LET url == ItemUrl(items[k])
         IN  IF url.raised THEN url
             ELSE LET srcs == IF url.val # <<>> /\ url.val \notin Range(sources)
                              THEN Append(sources, url.val)
                              ELSE sources
                  IN  IF Len(srcs) = 3 THEN Ret(srcs)
                      ELSE dedup_loop(items, k + 1, srcs)

\* One iteration of the snippet loop: the exception it raises, "" if none.
\* it.get needs a dict; (title or "")[:120] needs a title that is falsy or can
\* be sliced; (content or "").replace needs a content that is falsy or a str.
SnippetError(it) ==
    IF ~it.dict THEN "AttributeError"
    ELSE IF Truthy(it.title) /\ it.title.t = "int" THEN "TypeError"
    ELSE IF Truthy(it.content) /\ it.content.t # "str" THEN "AttributeError"
    ELSE ""

\* The snippet loop over items[:3] from item k on: the first exception, if any.
RECURSIVE snippet_loop(_, _)
snippet_loop(items, k) ==
    IF k > Len(items) \/ k > 3 THEN ""
    ELSE IF SnippetError(items[k]) # "" THEN SnippetError(items[k])
    ELSE snippet_loop(items, k + 1)

NoPayload == Payload("", <<>>, <<>>)

\* What a finished handler did: its outcome and the external calls it made.
Did(raised, err, val, calls, sleeps, llm_calls) ==
    [raised |-> raised, err |-> err, val |-> val,
     calls |-> calls, sleeps |-> sleeps, llm_calls |-> llm_calls]

\* The body of the try block.  fn[k] is what the k-th tavily.search does and
\* llm what llm.invoke(prompt) does.
\* r is what with_retries did.
\* summary = llm.invoke(prompt).content.strip(); return the search payload
summarize(r, sources, llm) ==
    IF llm.raised THEN Did(TRUE, llm.err, NoPayload, r.calls, r.sleeps, 1)
    ELSE Did(FALSE, "", Payload("search", Strip(llm.val), sources), r.calls, r.sleeps, 1)

\* the snippet loop, then the prompt and the summary
build_snippets(r, items, sources, llm) ==
    IF snippet_loop(items, 1) # ""
    THEN Did(TRUE, snippet_loop(items, 1), NoPayload, r.calls, r.sleeps, 0)
    ELSE summarize(r, sources, llm)

\* the dedup loop has run: sources is its outcome
collect_sources(r, items, sources, llm) ==
    IF sources.raised THEN Did(TRUE, sources.err, NoPayload, r.calls, r.sleeps, 0)
    ELSE build_snippets(r, items, sources.val, llm)

\* the result list has been taken out of the results: items is the outcome
take_items(r, items, llm) ==
    IF items.raised THEN Did(TRUE, items.err, NoPayload, r.calls, r.sleeps, 0)
    ELSE collect_sources(r, items.val, dedup_loop(items.val, 1, <<>>), llm)

\* with_retries has finished
use_results(r, llm) ==
    IF r.raised THEN Did(TRUE, r.err, NoPayload, r.calls, r.sleeps, 0)
    ELSE take_items(r, Normalize(r.val), llm)

search_try(fn, llm) ==
    use_results(with_retries(fn, 3, Frac(6, 10), Frac(18, 10), {"Exception"}), llm)

\* (as if the except clause were missing)
search_unguarded(fn, llm) == search_try(fn, llm)

\* try: ... except Exception as e: return the "Search failed" payload; an
\* exception that does not derive from Exception passes through.
search_failed(b) ==
    IF b.raised /\ IsInstance(b.err, "Exception")
    THEN Did(FALSE, "", Payload("error", <<"Search failed: ", b.err>>, <<>>),
             b.calls, b.sleeps, b.llm_calls)
    ELSE b

search_guarded(fn, llm) == search_failed(search_try(fn, llm))

\* (as if the "if not tavily" guard were missing)
run_search_unchecked(configured, fn, llm) == search_guarded(fn, llm)

run_search(configured, fn, llm) ==
    IF ~configured
    THEN Did(FALSE, "", Payload("error", <<"Tavily API key not set.">>, <<>>), 0, <<>>, 0)
    ELSE search_guarded(fn, llm)

\* --------------------------------------------------------- answer_query
\* run_math makes no external call besides the evaluation.
math_did(math) ==
    Did(math.raised, math.err, IF math.raised THEN NoPayload ELSE math.val, 0, <<>>, 0)

\* return safe_return(out), unless the handler raised
validated(out) ==
    IF out.raised THEN out
    ELSE [out EXCEPT !.val = safe_return(HandlerDict(out.val))]

answer_query(query, configured, ne, fn, llm) ==
    validated(IF decide_mode(query) = "math"
              THEN math_did(run_math(query, ne))
              ELSE run_search(configured, fn, llm))

\* ================================================================ state
VARIABLES
    history,    \* st.session_state["history"]
    clock,      \* the wall clock, in seconds
    tavily,     \* TRUE iff TAVILY_API_KEY was set when the module was loaded
    pc,         \* where the script run of the session stands: "idle" (no run),
                \* "answering" (inside answer_query) or "rendering" (between
                \* the return of answer_query and the append to the history)
    request,    \* the widget event that waits for the running script to
                \* stop: "none", "clear" (the Clear button) or "other"
    runs,       \* how many times the operation under study has run
    inp,        \* the inputs of the last run
    res         \* what the last run did

vars == <<history, clock, tavily, pc, request, runs, inp, res>>

NoInput == [query |-> <<>>]
NoResult == [raised |-> FALSE, err |-> "", val |-> NoPayload]

\* What the UI script sees of a call: the value returned or the exception.
Outcome(did) == [raised |-> did.raised, err |-> did.err, val |-> did.val]

\* ------------------------------------------------------- input domains
\* The texts of length at most n over an alphabet.
RECURSIVE Texts(_, _)
Texts(alphabet, n) ==
    IF n = 0 THEN {<<>>}
    ELSE LET shorter == Texts(alphabet, n - 1)
         IN  shorter \cup {Append(t, c) : t \in {x \in shorter : Len(x) = n - 1},
                                           c \in alphabet}

\* What the external calls raise: failures of the provider, and exceptions
\* that do not derive from Exception.
SearchErrors == {"ConnectionError", "TimeoutError"}
LlmOutcomes == {Ret(<<"U+00A0", "s", "\n">>), Raise("APIError"), Raise("KeyboardInterrupt")}

\* ======================================================== the UI session
\* The script runs from top to bottom in the session's script thread.  A
\* widget event that arrives while the script runs asks for a rerun; the
\* framework stops the running script at its next st call and runs the script
\* again for the event.  answer_query makes no st call, so a run can be
\* stopped only once answer_query has returned.
UITexts ==
    {<<"w", "h", "a", "t", " ", "i", "s", " ", "1", "0", "/", "0">>,
     <<"W", "h", "a", "t", " ", "i", "s", " ", "l", "o", "v", "e">>,
     <<"c", "a", "l", "c">>,
     <<" ", "(", "2", "3", "*", "4", "7", ")", "+", "1", "9", "9">>,
     <<"h", "e", "l", "l", "o", " ", "w", "o", "r", "l", "d", " ">>,
     <<"U+00E9", "c", "a", "l", "c">>,
     <<"U+00A0", "1", "U+00A0", "+", "U+2003", "1">>,
     <<" ">>}

ItemA == Result(StrElem(<<"a">>))
ItemB == Result(StrElem(<<"b">>))

\* The provider as the UI session sees it: each attempt fails or answers.
UIScripts == [1..3 -> {SearchRaise("ConnectionError"),
                       SearchRet(Wrapped(<<ItemA, ItemB, ItemA>>))}]

\* history[-10:], the entries the script renders.
Shown(h) == SubSeq(h, IF Len(h) > 10 THEN Len(h) - 9 ELSE 1, Len(h))

\* Two rendered entries carry the same ts: the second st.download_button has
\* the key dl_{ts} of the first, the framework raises on the duplicate key
\* and the script stops inside the history loop, on this and on every later
\* run, before it reaches the Clear button, the text input and the Run button.
DuplicateKey(h) ==
    \E i, j \in 1..Len(Shown(h)) : i < j /\ Shown(h)[i].ts = Shown(h)[j].ts

Init ==
    /\ history = <<>>
    /\ clock = 0
    /\ tavily \in BOOLEAN
    /\ pc = "idle"
    /\ request = "none"
    /\ runs = 0
    /\ inp = NoInput
    /\ res = NoResult

\* The Run button with a non-blank text: the script enters answer_query.
Submit(text) ==
    /\ pc = "idle" /\ request = "none"
    /\ ~DuplicateKey(history)
    /\ runs < MaxRuns
    /\ Strip(text) # <<>>
    /\ inp' = [query |-> Strip(text)]
    /\ res' = NoResult
    /\ pc' = "answering"
    /\ runs' = runs + 1
    /\ UNCHANGED <<history, clock, tavily, request>>

\* resp = answer_query(query.strip()): an exception ends the script run.
Answer(ne, fn, llm) ==
    /\ pc = "answering"
    /\ res' = Outcome(answer_query(inp.query, tavily, ne, fn, llm))
    /\ pc' = IF res'.raised THEN "idle" ELSE "rendering"
    /\ UNCHANGED <<history, clock, tavily, request, runs, inp>>

\* A widget event while the script runs.  The Clear button is on the page
\* only when the history was not empty at the last rendering.
Click(kind) ==
    /\ pc \in {"answering", "rendering"}
    /\ request = "none"
    /\ kind = "clear" => history # <<>> /\ ~DuplicateKey(history)
    /\ request' = kind
    /\ UNCHANGED <<history, clock, tavily, pc, runs, inp, res>>

\* The response is rendered and appended to the history.  ts is datetime.now().
Save(ts) ==
    /\ pc = "rendering" /\ request = "none"
    /\ history' = Append(history, [ts |-> ts, query |-> inp.query, response |-> res.val])
    /\ clock' = ts
    /\ pc' = "idle"
    /\ UNCHANGED <<tavily, request, runs, inp, res>>

\* The run is stopped for the waiting event at an st call before the append.
Abandon ==
    /\ pc = "rendering" /\ request # "none"
    /\ pc' = "idle"
    /\ UNCHANGED <<history, clock, tavily, request, runs, inp, res>>

\* (as if the button removed the most recent entry only)
ClearLast ==
    /\ pc = "idle" /\ request \in {"none", "clear"}
    /\ history # <<>> /\ ~DuplicateKey(history)
    /\ history' = SubSeq(history, 1, Len(history) - 1)
    /\ request' = "none"
    /\ UNCHANGED <<clock, tavily, pc, runs, inp, res>>

\* The "Clear history" button, reached by the script only when the history
\* is not empty and its loop over the history has passed: pressed on the
\* idle page, or waiting since the last run.
Clear ==
    /\ pc = "idle" /\ request \in {"none", "clear"}
    /\ history # <<>> /\ ~DuplicateKey(history)
    /\ history' = <<>>
    /\ request' = "none"
    /\ UNCHANGED <<clock, tavily, pc, runs, inp, res>>

\* The rerun for any other event renders the page again.
Rerender ==
    /\ pc = "idle" /\ request = "other"
    /\ request' = "none"
    /\ UNCHANGED <<history, clock, tavily, pc, runs, inp, res>>

Next ==
    \/ \E text \in UITexts : Submit(text)
    \/ \E ne \in NeOutcomes, fn \in UIScripts, llm \in LlmOutcomes : Answer(ne, fn, llm)
    \/ \E kind \in {"clear", "other"} : Click(kind)
    \/ \E ts \in {clock, clock + 1} : Save(ts)
    \/ Abandon
    \/ Clear
    \/ Rerender

Spec == Init /\ [][Next]_vars

\* The session variables of a call studied on its own.
NoSession == history = <<>> /\ clock = 0 /\ pc = "idle" /\ request = "none"

\* ================================================== run_math on its own
\* "U+0663" is a digit of \d outside [0-9], "U+00A0" a blank outside ASCII.
MathAlphabet == {"h", " ", "1", "+", "/", "e", ".", "U+0663", "U+00A0"}

InitMath ==
    /\ NoSession /\ tavily = FALSE /\ runs = 0
    /\ inp \in [query : Texts(MathAlphabet, MaxQueryLen), ne : NeOutcomes]
    /\ res = NoResult

CallMath ==
    /\ runs = 0
    /\ res' = run_math(inp.query, inp.ne)
    /\ runs' = 1
    /\ UNCHANGED <<history, clock, tavily, pc, request, inp>>

NextMath == CallMath

SpecMath == InitMath /\ [][NextMath]_vars

\* =============================================== safe_return on its own
ModeVals == {Absent, None, Number, List(<<>>), Str(<<>>), Str(<<"bogus">>),
             Str(<<"math">>), Str(<<"search">>), Str(<<"error">>), Str(<<"MATH">>)}
AnswerVals == {Absent, None, Number, List(<<>>), Str(<<>>), Str(<<"x">>)}
ElemVals == {StrElem(<<"a">>), StrElem(<<"b">>), NumberElem}
SourcesVals ==
    {Absent, None, Number, Str(<<"a">>)}
        \cup {List(l) : l \in UNION {[1..n -> ElemVals] : n \in 0..MaxSources}}

InitValidate ==
    /\ NoSession /\ tavily = FALSE /\ runs = 0
    /\ inp \in [mode : ModeVals, answer : AnswerVals, sources : SourcesVals]
    /\ res = NoPayload

CallValidate ==
    /\ runs = 0
    /\ res' = safe_return(inp)
    /\ runs' = 1
    /\ UNCHANGED <<history, clock, tavily, pc, request, inp>>

NextValidate == CallValidate

SpecValidate == InitValidate /\ [][NextValidate]_vars

\* ============================================== with_retries on its own
FnOutcomes == {Ret(<<"v">>), Raise("ConnectionError"), Raise("ValueError"),
               Raise("FileNotFoundError"), Raise("KeyboardInterrupt"),
               Raise("CancelledError")}
ExceptionSets == {{"Exception"}, {"OSError"}, {"ConnectionError"},
                  {"ConnectionError", "ValueError"}}
Delays == {Frac(6, 10), Frac(0, 1), Frac(-1, 1)}
Backoffs == {Frac(18, 10), Frac(-1, 1)}

InitRetry ==
    /\ NoSession /\ tavily = FALSE /\ runs = 0
    /\ \E tries \in 0..MaxTries :
          inp \in [fn : [1..tries -> FnOutcomes], tries : {tries}, delay : Delays,
                   backoff : Backoffs, exceptions : ExceptionSets]
    /\ res = NoResult

CallRetry ==
    /\ runs = 0
    /\ res' = with_retries(inp.fn, inp.tries, inp.delay, inp.backoff, inp.exceptions)
    /\ runs' = 1
    /\ UNCHANGED <<history, clock, tavily, pc, request, inp>>

NextRetry == CallRetry

SpecRetry == InitRetry /\ [][NextRetry]_vars

\* ================================================ run_search on its own
\* The "url" of a result: missing, empty, blank, padded, plain (four
\* different ones, one more than the cap), 0, 5.
UrlVals == {AbsentElem, StrElem(<<>>), StrElem(<<"U+00A0">>),
            StrElem(<<" ", "a">>), StrElem(<<"a">>), StrElem(<<"b">>),
            StrElem(<<"c">>), StrElem(<<"d">>), ZeroElem, NumberElem}
Items == {Result(u) : u \in UrlVals}

\* Results that break the pipeline after the search itself succeeded, or
\* that look as if they did: a title 5 cannot be sliced, a content 5 has no
\* replace, a title [1] can be sliced.
OddRaw == {NoneRaw, DictNoResults, BareList(<<ItemA, NonDictItem>>),
           Wrapped(<<ItemA, DictItem(StrElem(<<"b">>), NumberElem, NumberElem)>>),
           Wrapped(<<ItemA, DictItem(StrElem(<<"b">>), ZeroElem, NumberElem)>>),
           Wrapped(<<ItemA, DictItem(StrElem(<<"b">>), ListElem, ZeroElem)>>),
           Wrapped(<<ItemA, ItemB, Result(StrElem(<<"c">>)), NonDictItem>>)}
SearchOutcomes ==
    {SearchRaise(e) : e \in SearchErrors \cup {"KeyboardInterrupt", "CancelledError"}}
        \cup {SearchRet(raw) : raw \in OddRaw}

\* Either the provider misbehaves in any of its three attempts, or it
\* answers at once with any list of at most MaxItems results, bare or wrapped.
InitSearch ==
    /\ NoSession /\ runs = 0
    /\ tavily \in BOOLEAN
    /\ \/ inp \in [fn : [1..3 -> SearchOutcomes], llm : LlmOutcomes]
       \/ \E n \in 0..MaxItems : \E items \in [1..n -> Items] :
          \E wrapped \in BOOLEAN, llm \in LlmOutcomes :
             inp = [fn |-> [k \in 1..3 |->
                              SearchRet(IF wrapped THEN Wrapped(items) ELSE BareList(items))],
                    llm |-> llm]
    /\ res = NoResult

CallSearch ==
    /\ runs = 0
    /\ res' = run_search(tavily, inp.fn, inp.llm)
    /\ runs' = 1
    /\ UNCHANGED <<history, clock, tavily, pc, request, inp>>

NextSearch == CallSearch

SpecSearch == InitSearch /\ [][NextSearch]_vars

\* =============================================================== claims
Last(seq) == seq[Len(seq)]
NoDuplicates(seq) == \A i, j \in 1..Len(seq) : i # j => seq[i] # seq[j]

\* ---- the retry executor (SpecRetry) ----
\* The exception e is an instance of a class of the retryable set of the
\* call under study.
IsRetryable(e) == \E cls \in inp.exceptions : IsInstance(e, cls)

\* The k-th invocation raises an exception of the retryable set.
FailsAt(k) == inp.fn[k].raised /\ IsRetryable(inp.fn[k].err)

\* The k-th invocation raises an exception outside the retryable set.
FatalAt(k) == inp.fn[k].raised /\ ~IsRetryable(inp.fn[k].err)

RECURSIVE FracPow(_, _)
FracPow(b, k) == IF k = 0 THEN Frac(1, 1) ELSE FracMul(b, FracPow(b, k - 1))

\* The delay of the j-th time.sleep of the call under study.
SleepDelay(j) == FracMul(inp.delay, FracPow(inp.backoff, j - 1))

\* Attempt k is made when the attempts before it fail with retryable
\* exceptions and the sleeps between them are accepted by time.sleep.
Attempted(k) ==
    \A j \in 1..(k - 1) : FailsAt(j) /\ ~FracNeg(SleepDelay(j))

\* C3 as stated: with tries = n >= 1 and an operation that raises a retryable
\* exception on every attempt, with_retries invokes the operation exactly n
\* times, never returns a value, and raises the exception of the last attempt.
C3_AsStated ==
    (runs = 1 /\ inp.tries >= 1 /\ \A k \in 1..inp.tries : FailsAt(k))
        => /\ res.calls = inp.tries
           /\ Len(SelectSeq(res.log, LAMBDA e : e \in {"ok", "fail", "fatal"})) = inp.tries
           /\ res.raised
           /\ res.err = inp.fn[inp.tries].err

\* C3 (amended): the same, provided none of the n-1 backoff delays
\* delay * backoff^(j-1) is negative.  In every case the operation is
\* invoked at most n times and no value is returned.
C3_RetryBound ==
    (runs = 1 /\ inp.tries >= 1 /\ \A k \in 1..inp.tries : FailsAt(k))
        => /\ res.calls <= inp.tries
           /\ res.raised
           /\ Attempted(inp.tries) =>
                 /\ res.calls = inp.tries
                 /\ Len(SelectSeq(res.log, LAMBDA e : e \in {"ok", "fail", "fatal"}))
                        = inp.tries
                 /\ res.err = inp.fn[inp.tries].err

\* Three attempts fail with retryable exceptions, the last differing from the first.
C3_Witness ==
    /\ runs = 1 /\ inp.tries = 3
    /\ \A k \in 1..3 : FailsAt(k)
    /\ inp.fn[1].err # inp.fn[3].err
    /\ res.calls = 3 /\ res.raised /\ res.err = inp.fn[3].err

\* C4: an exception outside the retryable set propagates on its first
\* occurrence, on whatever attempt it occurs: the operation is not invoked
\* again and no sleep follows it.  (It occurs on attempt k when attempt k is
\* made and raises it.)
C4_NonRetryablePropagates ==
    \A k \in 1..inp.tries :
        (runs = 1 /\ FatalAt(k) /\ Attempted(k))
            => /\ res.raised
               /\ res.err = inp.fn[k].err
               /\ res.calls = k
               /\ Len(res.sleeps) = k - 1
               /\ Last(res.log) = "fatal"

\* A non-retryable exception on the second attempt, after a retryable one:
\* a subclass of a listed class is retried, an exception outside Exception
\* is not retried by (Exception,).
C4_Witness ==
    /\ runs = 1 /\ inp.tries = 3
    /\ inp.exceptions \in {{"OSError"}, {"Exception"}}
    /\ inp.fn[1].err = "FileNotFoundError" /\ FailsAt(1)
    /\ inp.fn[2].err \in {"ValueError", "CancelledError"} /\ FatalAt(2)
    /\ res.raised /\ res.calls = 2 /\ Len(res.sleeps) = 1

\* The invocations in the event log of the call.
IsAttempt(e) == e \in {"ok", "fail", "fatal"}

\* C10: with_retries sleeps only between attempts.  Every sleep follows a
\* failed attempt and is followed by another attempt; a run in which all n
\* attempts fail has n-1 sleeps; a run that succeeds on attempt k has k-1
\* sleeps and k invocations; the j-th sleep lasts delay * backoff^(j-1).
\* (A time.sleep that raises on a negative delay does not sleep; it ends the
\* run after a failed attempt.)
C10_SleepsBetweenAttempts ==
    runs = 1 =>
        /\ \A p \in 1..Len(res.log) :
              res.log[p] = "sleep" =>
                  /\ p > 1 /\ res.log[p - 1] = "fail"
                  /\ p < Len(res.log) /\ IsAttempt(res.log[p + 1])
        /\ \A p \in 1..Len(res.log) :
              res.log[p] \in {"ok", "fatal", "refused"} => p = Len(res.log)
        /\ \A p \in 1..Len(res.log) :
              res.log[p] = "refused" =>
                  /\ p > 1 /\ res.log[p - 1] = "fail"
                  /\ res.raised /\ res.err = "ValueError"
                  /\ FracNeg(SleepDelay(Len(res.sleeps) + 1))
        /\ Len(SelectSeq(res.log, LAMBDA e : e = "sleep")) = Len(res.sleeps)
        /\ Len(SelectSeq(res.log, IsAttempt)) = res.calls
        /\ (inp.tries >= 1 /\ res.calls = inp.tries
                /\ \A p \in 1..Len(res.log) : res.log[p] # "ok")
              => Len(res.sleeps) = inp.tries - 1
        /\ ~res.raised =>
              /\ Last(res.log) = "ok"
              /\ Len(res.sleeps) = res.calls - 1
              /\ res.val = inp.fn[res.calls].val
        /\ \A k \in 1..inp.tries :
              (~inp.fn[k].raised /\ Attempted(k))
                  => /\ ~res.raised
                     /\ res.val = inp.fn[k].val
                     /\ res.calls = k
                     /\ Len(res.sleeps) = k - 1
        /\ \A j \in 1..Len(res.sleeps) :
              /\ FracEq(res.sleeps[j], SleepDelay(j))
              /\ ~FracNeg(res.sleeps[j])

\* Success on the third attempt after two sleeps.
C10_Witness ==
    /\ runs = 1 /\ inp.tries = 3
    /\ ~res.raised /\ res.calls = 3
    /\ Len(res.sleeps) = 2
    /\ ~FracEq(res.sleeps[1], res.sleeps[2])

\* ---- the response validator (SpecValidate) ----
\* The payload has the three fields with the types of the response contract.
WellFormed(p) ==
    /\ p.mode.t = "str"
    /\ p.answer.t = "str"
    /\ p.sources.t \in {"absent", "list"}
    /\ \A i \in 1..Len(p.sources.l) : p.sources.l[i].t = "str"

\* C7: the result of safe_return always has mode math, search or error: a
\* valid mode is kept, a well-formed payload with any other mode is kept with
\* mode error, and an ill-formed payload is replaced by the "Invalid payload"
\* error with no sources.
C7_SafeReturn ==
    runs = 1 =>
        /\ res.mode \in Modes
        /\ WellFormed(inp) =>
              /\ res.answer = inp.answer.s
              /\ Len(res.sources) = Len(inp.sources.l)
              /\ \A i \in 1..Len(res.sources) : res.sources[i] = inp.sources.l[i].s
              /\ \A m \in Modes : inp.mode.s = <<m>> => res.mode = m
              /\ (\A m \in Modes : inp.mode.s # <<m>>) => res.mode = "error"
        /\ ~WellFormed(inp) =>
              /\ res.mode = "error"
              /\ res.answer[1] = "Invalid payload: "
              /\ res.sources = <<>>

\* {"mode": "bogus", "answer": "x", "sources": [...]} came back with mode error.
C7_Witness ==
    /\ runs = 1
    /\ inp.mode = Str(<<"bogus">>) /\ inp.answer = Str(<<"x">>)
    /\ inp.sources.t = "list" /\ Len(inp.sources.l) = 1
    /\ res.mode = "error" /\ res.answer = <<"x">>

\* ---- the search pipeline (SpecSearch) ----
\* The call failed: it raised an exception that derives from Exception.
Failed(out) == out.raised /\ IsInstance(out.err, "Exception")

\* The call was interrupted: it raised an exception outside Exception
\* (KeyboardInterrupt, SystemExit), which is not a failure of the capability.
Interrupted(out) == out.raised /\ ~IsInstance(out.err, "Exception")

AllAttemptsFail == \A k \in 1..3 : Failed(inp.fn[k])

\* The k-th attempt is reached: the earlier ones failed.
Reached(k) == \A j \in 1..(k - 1) : Failed(inp.fn[j])
SearchAnswered == \E k \in 1..3 : Reached(k) /\ ~inp.fn[k].raised
SearchInterrupted == \E k \in 1..3 : Reached(k) /\ Interrupted(inp.fn[k])

\* What the first successful tavily.search returned.
FirstResults ==
    inp.fn[CHOOSE k \in 1..3 : Reached(k) /\ ~inp.fn[k].raised].val

\* The result list inside the provider's answer, when there is one.
HasResultList == SearchAnswered /\ FirstResults.kind \in {"dict", "list"}
ResultList == IF FirstResults.kind = "dict" /\ ~FirstResults.has_results
              THEN <<>> ELSE FirstResults.items

IsSearchFailed(payload) ==
    /\ payload.mode = "error"
    /\ Len(payload.answer) >= 1 /\ payload.answer[1] = "Search failed: "
    /\ payload.sources = <<>>

\* What run_search returns in each case of the claim.
C2_Payloads ==
        /\ ~res.raised => res.val.mode \in {"search", "error"}
        /\ (tavily /\ AllAttemptsFail) =>
              /\ ~res.raised
              /\ IsSearchFailed(res.val)
              /\ res.val.answer = <<"Search failed: ", inp.fn[3].err>>
              /\ res.calls = 3
              /\ res.llm_calls = 0
        /\ (tavily /\ SearchAnswered /\ FirstResults.kind = "none") =>
              ~res.raised /\ IsSearchFailed(res.val) /\ res.llm_calls = 0
        /\ (tavily /\ HasResultList
                /\ \E k \in 1..Len(ResultList) : k <= 3 /\ ~ResultList[k].dict) =>
              ~res.raised /\ IsSearchFailed(res.val) /\ res.llm_calls = 0
        /\ (tavily /\ res.llm_calls = 1 /\ Failed(inp.llm)) =>
              /\ ~res.raised
              /\ res.val = Payload("error", <<"Search failed: ", inp.llm.err>>, <<>>)
        /\ (tavily /\ ~res.raised /\ res.val.mode = "error") => IsSearchFailed(res.val)
        /\ res.val.mode = "search" =>
              /\ tavily /\ SearchAnswered /\ ~inp.llm.raised
              /\ res.llm_calls = 1
              /\ res.val.answer = Strip(inp.llm.val)

\* C2 as stated: run_search never raises.  When every search attempt fails,
\* when the results cannot be normalized or deduplicated, or when the
\* summarizer fails, it returns the "Search failed:" error payload with no
\* sources; mode search is returned only when search and summarization both
\* succeeded.
C2_AsStated ==
    runs = 1 => ~res.raised /\ C2_Payloads

\* C2 (amended): run_search never raises an exception that derives from
\* Exception; what it raises is the exception outside Exception
\* (KeyboardInterrupt, SystemExit, GeneratorExit, asyncio's CancelledError)
\* that a search attempt or the summarizer raised.  The payloads are as stated.
C2_SearchNeverRaises ==
    runs = 1 =>
        /\ res.raised =>
              /\ ~IsInstance(res.err, "Exception")
              /\ tavily
              /\ \/ SearchInterrupted /\ res.llm_calls = 0
                    /\ \E k \in 1..3 : /\ Reached(k) /\ Interrupted(inp.fn[k])
                                       /\ res.err = inp.fn[k].err /\ res.calls = k
                 \/ res.llm_calls = 1 /\ Interrupted(inp.llm) /\ res.err = inp.llm.err
        /\ (tavily /\ SearchInterrupted) => res.raised
        /\ (tavily /\ res.llm_calls = 1 /\ Interrupted(inp.llm)) => res.raised
        /\ C2_Payloads

\* The summarizer failed after sources had been collected: they are dropped.
C2_Witness ==
    /\ runs = 1 /\ tavily
    /\ HasResultList /\ Len(ResultList) >= 1
    /\ ResultList[1].dict /\ ResultList[1].url = StrElem(<<"a">>)
    /\ res.llm_calls = 1 /\ Failed(inp.llm)
    /\ ~res.raised /\ IsSearchFailed(res.val)

\* C5: with no search capability configured run_search returns the "not set"
\* error at once: no search invocation, no sleep, no summarizer invocation.
C5_MissingCapability ==
    (runs = 1 /\ ~tavily) =>
        /\ ~res.raised
        /\ res.val = Payload("error", <<"Tavily API key not set.">>, <<>>)
        /\ res.calls = 0
        /\ res.sleeps = <<>>
        /\ res.llm_calls = 0

\* The key is missing while provider and summarizer would both have answered.
C5_Witness ==
    /\ runs = 1 /\ ~tavily
    /\ ~inp.fn[1].raised /\ ~inp.llm.raised
    /\ res.val.mode = "error" /\ res.calls = 0

\* The trimmed, non-empty URLs of the items that have a str URL, in order.
RECURSIVE TrimmedUrls(_)
TrimmedUrls(items) ==
    IF items = <<>> THEN <<>>
    ELSE LET it == Head(items)
         IN  (IF it.dict /\ it.url.t = "str" /\ Strip(it.url.s) # <<>>
              THEN <<Strip(it.url.s)>> ELSE <<>>) \o TrimmedUrls(Tail(items))

\* The non-empty str URLs of the items as the provider gave them, in order.
RECURSIVE RawUrls(_)
RawUrls(items) ==
    IF items = <<>> THEN <<>>
    ELSE LET it == Head(items)
         IN  (IF it.dict /\ it.url.t = "str" /\ it.url.s # <<>>
              THEN <<it.url.s>> ELSE <<>>) \o RawUrls(Tail(items))

\* The first occurrences of the elements of a sequence, in order.
RECURSIVE FirstSeen(_)
FirstSeen(seq) ==
    IF seq = <<>> THEN <<>>
    ELSE LET init == SubSeq(seq, 1, Len(seq) - 1)
         IN  IF \E i \in 1..Len(init) : init[i] = Last(seq)
             THEN FirstSeen(init)
             ELSE Append(FirstSeen(init), Last(seq))

FirstThree(seq) == SubSeq(seq, 1, IF Len(seq) < 3 THEN Len(seq) ELSE 3)

\* C6 as stated: the sources of the response have no duplicates and at most
\* 3 entries, and those of a response built from the result list (mode
\* search) are the first three distinct non-empty URLs of the raw list, in
\* first-seen order.
C6_AsStated ==
    runs = 1 =>
        /\ NoDuplicates(res.val.sources)
        /\ Len(res.val.sources) <= 3
        /\ res.val.mode = "search" =>
              res.val.sources = FirstThree(FirstSeen(RawUrls(ResultList)))

\* C6 (amended): the same, with the URLs trimmed of surrounding whitespace
\* before they are tested for emptiness, compared and listed.
C6_Dedup ==
    runs = 1 =>
        /\ NoDuplicates(res.val.sources)
        /\ Len(res.val.sources) <= 3
        /\ res.val.mode = "search" =>
              res.val.sources = FirstThree(FirstSeen(TrimmedUrls(ResultList)))

\* Four different URLs, one of them padded: the fourth is cut off by the cap.
C6_Witness ==
    /\ runs = 1 /\ res.val.mode = "search"
    /\ Len(res.val.sources) = 3
    /\ Len(FirstSeen(TrimmedUrls(ResultList))) = 4
    /\ res.val.sources = SubSeq(FirstSeen(TrimmedUrls(ResultList)), 1, 3)
    /\ RawUrls(ResultList) # TrimmedUrls(ResultList)

\* ---- the math handler (SpecMath) ----
\* The query has no digit, no operator and no parenthesis.
NoCandidate(query) ==
    \A i \in 1..Len(query) : query[i] \notin Digits \cup MathOps \cup {"^"}

\* C8: run_math on a query with no arithmetic candidate fails with the
\* extraction error, raised before any evaluation is attempted; the
\* evaluation errors are raised only when a candidate was extracted.
C8_ExtractionError ==
    /\ (runs = 1 /\ NoCandidate(inp.query)) =>
          /\ res.raised
          /\ res.err = "No math expression found."
    /\ (runs = 1 /\ res.raised /\ res.err # "No math expression found.") =>
          ~NoCandidate(inp.query)

\* ---- the router and the UI session (Spec) ----
\* C1: answer_query never raises: whatever the query and whatever the handler
\* does, no failure reaches the caller, who gets a response whose mode is
\* math, search or error.
C1_AnswerQueryNeverRaises ==
    (runs > 0 /\ pc # "answering") =>
        /\ ~Failed(res)
        /\ ~res.raised => res.val.mode \in Modes

\* C9: the history is append-only.  The run of a query that reaches its end
\* appends exactly one entry {ts, query, response} at the end and leaves the
\* earlier entries as they were; any other step leaves the history as it was
\* or is the clear, which empties the whole history.
C9_AppendOnly ==
    [][IF pc = "rendering" /\ pc' = "idle" /\ request = "none"
       THEN history' = Append(history,
                [ts |-> clock', query |-> inp.query, response |-> res.val])
       ELSE \/ history' = history
            \/ history # <<>> /\ history' = <<>>]_vars

\* A second entry was appended behind a first one.
C9_Witness ==
    /\ Len(history) = 2
    /\ pc = "idle"
    /\ history[2].query = inp.query /\ history[2].response = res.val
    /\ history[1] # history[2]

====
